---- MODULE Spec2Model ----
(***************************************************************************)
(* A model of pytablewriter's JavaScriptTableWriter                         *)
(* (pytablewriter/writer/text/sourcecode/_javascript.py).                   *)
(*                                                                         *)
(* Text is modelled character by character: a Python str is a sequence of  *)
(* one-character strings, so that quoting, quote stripping, rstrip,         *)
(* splitlines and join are computed the way the code computes them.         *)
(***************************************************************************)
EXTENDS Integers, Sequences, FiniteSets, TLC

\* ------------------------------------------------------------------ bounds
MaxRows == 2
MaxCols == 2
MaxCalls == 2

\* --------------------------------------------------------- text constants
QUOTE == "\""
NL == "\n"
S_true == <<"t", "r", "u", "e">>
S_false == <<"f", "a", "l", "s", "e">>
S_null == <<"n", "u", "l", "l">>
S_Infinity == <<"I", "n", "f", "i", "n", "i", "t", "y">>
S_NegInfinity == <<"-">> \o S_Infinity
S_NaN == <<"N", "a", "N">>
S_var == <<"v", "a", "r">>
S_let == <<"l", "e", "t">>
S_const == <<"c", "o", "n", "s", "t">>

\* ------------------------------------------------------- python str helpers
Whitespace == {" ", NL, "\t"}

RECURSIVE RStrip(_, _)
\* str.rstrip(chars)
RStrip(s, chars) ==
    IF s # <<>> /\ s[Len(s)] \in chars THEN RStrip(SubSeq(s, 1, Len(s) - 1), chars) ELSE s

RECURSIVE LStrip(_, _)
\* str.lstrip(chars)
LStrip(s, chars) ==
    IF s # <<>> /\ s[1] \in chars THEN LStrip(Tail(s), chars) ELSE s

\* str.strip()
Strip(s) == LStrip(RStrip(s, Whitespace), Whitespace)

LowerChar(c) ==
    CASE c = "A" -> "a"
      [] c = "C" -> "c"
      [] c = "E" -> "e"
      [] c = "L" -> "l"
      [] c = "R" -> "r"
      [] c = "S" -> "s"
      [] c = "T" -> "t"
      [] c = "V" -> "v"
      [] OTHER -> c

\* str.lower()
Lower(s) == [i \in 1..Len(s) |-> LowerChar(s[i])]

RECURSIVE Concat(_)
\* "".join(list)
Concat(list) == IF list = <<>> THEN <<>> ELSE Head(list) \o Concat(Tail(list))

RECURSIVE Join(_, _)
\* sep.join(list)
Join(sep, list) ==
    IF list = <<>> THEN <<>>
    ELSE IF Len(list) = 1 THEN list[1]
    ELSE list[1] \o sep \o Join(sep, Tail(list))

RECURSIVE SplitFrom(_, _)
SplitFrom(s, cur) ==
    IF s = <<>> THEN (IF cur = <<>> THEN <<>> ELSE <<cur>>)
    ELSE IF Head(s) = NL THEN <<cur>> \o SplitFrom(Tail(s), <<>>)
    ELSE SplitFrom(Tail(s), Append(cur, Head(s)))

\* str.splitlines(): no empty last line after a final line break
SplitLines(s) == SplitFrom(s, <<>>)

\* indent_string * n for the four-space indent_string ("" when n <= 0)
IndentString(n) == [i \in 1..(IF n > 0 THEN 4 * n ELSE 0) |-> " "]

\* ------------------------------------------------------------- cell values
\* A raw cell of the value matrix: None, a bool, an int, a special float or a str.
VNone == [tag |-> "none", b |-> FALSE, n |-> 0, f |-> "", s |-> <<>>]
VBool(x) == [tag |-> "bool", b |-> x, n |-> 0, f |-> "", s |-> <<>>]
VInt(x) == [tag |-> "int", b |-> FALSE, n |-> x, f |-> "", s |-> <<>>]
VFloat(x) == [tag |-> "float", b |-> FALSE, n |-> 0, f |-> x, s |-> <<>>]
VStr(x) == [tag |-> "str", b |-> FALSE, n |-> 0, f |-> "", s |-> x]

\* A DataProperty: its typecode and its data (None, an int or a str).
DP(tc, kind, num, str) == [typecode |-> tc, kind |-> kind, n |-> num, s |-> str]

\* writer/text/_common.py bool_to_str, registered as a trans func: a genuine
\* bool becomes the str "true" / "false", anything else is returned as it is.
bool_to_str(value) ==
    IF value.tag = "bool" THEN VStr(IF value.b THEN S_true ELSE S_false) ELSE value

\* typepy's classification with strict_level_map[BOOL] = MAX: only a genuine
\* bool is BOOL; both infinities are INFINITY.
Typecode(value) ==
    CASE value.tag = "none" -> "NONE"
      [] value.tag = "bool" -> "BOOL"
      [] value.tag = "float" /\ value.f \in {"inf", "-inf"} -> "INFINITY"
      [] value.tag = "float" /\ value.f = "nan" -> "NAN"
      [] value.tag = "int" -> "INTEGER"
      [] OTHER -> "STRING"

\* self._dp_extractor.type_value_map: the literal that replaces a value, by typecode
type_value_map == [INFINITY |-> S_Infinity, NAN |-> S_NaN]

\* JavaScriptTableWriter.__NONE_VALUE_DP = DataProperty("null"): built outside the
\* extractor, so its data is the bare str null
NONE_VALUE_DP == DP("STRING", "str", 0, S_null)

\* The extractor's conversion of one raw value: trans funcs, classification, the
\* type_value_map replacement, then quoting of what is still a STRING.
ToDP(raw) ==
    LET value == bool_to_str(raw)
        tc == Typecode(value)
    IN  IF tc \in DOMAIN type_value_map THEN DP("STRING", "str", 0, type_value_map[tc])
        ELSE IF tc = "STRING" THEN DP("STRING", "str", 0, <<QUOTE>> \o value.s \o <<QUOTE>>)
        ELSE IF tc = "NONE" THEN DP("NONE", "none", 0, <<>>)
        ELSE IF tc = "BOOL" THEN DP("BOOL", "str", 0, IF value.b THEN <<"T", "r", "u", "e">> ELSE <<"F", "a", "l", "s", "e">>)
        ELSE DP("INTEGER", "int", value.n, <<>>)

Digit(d) == CASE d = 0 -> "0" [] d = 1 -> "1" [] d = 2 -> "2" [] d = 3 -> "3" [] d = 4 -> "4"
              [] d = 5 -> "5" [] d = 6 -> "6" [] d = 7 -> "7" [] d = 8 -> "8" [] OTHER -> "9"

RECURSIVE Digits(_)
Digits(n) == IF n < 10 THEN <<Digit(n)>> ELSE Append(Digits(n \div 10), Digit(n % 10))

\* The base writer's _to_row_item: the text of a DataProperty's data
SuperToRowItem(value_dp) ==
    CASE value_dp.kind = "int" ->
            (IF value_dp.n < 0 THEN <<"-">> \o Digits(0 - value_dp.n) ELSE Digits(value_dp.n))
      [] value_dp.kind = "none" -> <<"N", "o", "n", "e">>
      [] OTHER -> value_dp.s

\* A plausible bug: the None check is missing
ToRowItemNoNullSubstitution(value_dp) == SuperToRowItem(value_dp)

\* JavaScriptTableWriter._to_row_item
ToRowItem(value_dp) ==
    IF value_dp.kind = "none" THEN SuperToRowItem(NONE_VALUE_DP) ELSE SuperToRowItem(value_dp)

\* ------------------------------------------------------------ the writer
VARIABLES
    table_name,            \* self.table_name
    headers,               \* self.headers
    value_matrix,          \* self.value_matrix
    is_write_header,       \* self.is_write_header
    is_write_closing_row,  \* self.is_write_closing_row
    variable_declaration,  \* self.__variable_declaration
    indent_level,          \* self._indent_level
    stream,                \* self.stream: an index into streams
    streams,               \* the stream objects: streams[1] is the caller's sink,
                           \* the others are the StringIO buffers of _write_table
    raised                 \* the error the last operation raised, "none" if it returned

vars == <<table_name, headers, value_matrix, is_write_header, is_write_closing_row,
          variable_declaration, indent_level, stream, streams, raised>>

table == <<table_name, headers, value_matrix, is_write_header, is_write_closing_row>>

SINK == 1

\* JavaScriptTableWriter.__VALID_VAR_DECLARATION
VALID_VAR_DECLARATION == {S_var, S_let, S_const}

IdentifierChars ==
    {"a", "c", "e", "l", "r", "s", "t", "v", "A", "C", "E", "L", "R", "S", "T", "V",
     "0", "1", "2", "_", "$"}

\* sanitizer.sanitize_js_var_name(value, "_"): every character that is invalid in
\* an identifier is replaced by the replacement text
sanitize_js_var_name(value, repl) ==
    [i \in 1..Len(value) |-> IF value[i] \in IdentifierChars THEN value[i] ELSE repl]

\* JavaScriptTableWriter.get_variable_name
get_variable_name(value) == Lower(sanitize_js_var_name(value, "_"))

\* JavaScriptTableWriter._get_opening_row_items
get_opening_row_items(decl, name) ==
    << decl \o <<" ">> \o get_variable_name(name) \o <<" ", "=", " ", "[">> >>

\* A plausible bug: the statement is not terminated
ClosingRowWithoutSemicolon == << <<"]">> >>

\* JavaScriptTableWriter._get_closing_row_items
get_closing_row_items == << <<"]", ";">> >>

\* _converter.strip_quote(text, value): re.sub of ["']value["'] by value, the
\* matches taken from left to right without overlap
RECURSIVE strip_quote(_, _)
strip_quote(text, value) ==
    LET n == Len(value)
    IN  IF Len(text) < n + 2 THEN text
        ELSE IF /\ text[1] \in {QUOTE, "'"}
                /\ SubSeq(text, 2, n + 1) = value
                /\ text[n + 2] \in {QUOTE, "'"}
             THEN value \o strip_quote(SubSeq(text, n + 3, Len(text)), value)
             ELSE <<text[1]>> \o strip_quote(Tail(text), value)

\* TextTableWriter._write_line: the line the stream receives at an indent level
Line(level, text) == IndentString(level) \o text \o <<NL>>

\* One row of the table: [item, item, ...],
RowLine(level, items) == Line(level, <<"[">> \o Join(<<",", " ">>, items) \o <<"]", ",">>)

\* The extractor rejects a matrix that is not rectangular
IsRectangular(hdrs, matrix) ==
    /\ \A r \in 1..Len(matrix) : Len(matrix[r]) = Len(matrix[1])
    /\ (hdrs # <<>> /\ matrix # <<>>) => Len(matrix[1]) = Len(hdrs)

\* SourceCodeTableWriter._write_table at indent level `level`: the lines written to
\* self.stream. The opening and the closing row are written one level lower.
SuperWriteTable(level, decl, name, hdrs, matrix, wh, wc) ==
    << Line(level - 1, Concat(get_opening_row_items(decl, name))) >>
    \o (IF wh /\ hdrs # <<>>
        THEN << RowLine(level, [c \in 1..Len(hdrs) |-> ToRowItem(ToDP(VStr(hdrs[c])))]) >>
        ELSE <<>>)
    \o [r \in 1..Len(matrix) |->
          RowLine(level, [c \in 1..Len(matrix[r]) |-> ToRowItem(ToDP(matrix[r][c]))])]
    \o (IF wc THEN << Line(level - 1, Concat(get_closing_row_items)) >> ELSE <<>>)

\* A plausible bug: the booleans' quotes are not stripped
UnquoteNothing(text) == text

\* _write_table, lines 115 and 116
UnquoteBooleans(text) == strip_quote(strip_quote(text, S_true), S_false)

\* A plausible bug: the comma is stripped from the last line, not the one before
FixTrailingCommaOfLastLine(text) ==
    LET lines == SplitLines(text)
    IN  Join(<<NL>>, [lines EXCEPT ![Len(lines)] = RStrip(@, {","})])

\* _write_table, lines 118 to 120 (at least two lines: else line 119 raises)
FixTrailingComma(text) ==
    LET lines == SplitLines(text)
    IN  Join(<<NL>>, [lines EXCEPT ![Len(lines) - 1] = RStrip(@, {","})])

\* A plausible bug: the emptiness of the data is not verified
VerifyTableNameOnly ==
    IF table_name = <<>> THEN "EmptyTableNameError" ELSE "none"

\* AbstractTableWriter._verify_property, called by write_table before _write_table
VerifyProperty ==
    IF table_name = <<>> THEN "EmptyTableNameError"
    ELSE IF headers = <<>> /\ value_matrix = <<>> THEN "EmptyTableDataError"
    ELSE "none"

\* --------------------------------------------------------------- inputs
Fill == VInt(1)

Values ==
    {VNone, VBool(TRUE), VBool(FALSE), VInt(1), VFloat("inf"), VFloat("-inf"),
     VFloat("nan"), VStr(S_true), VStr(S_false), VStr(S_null), VStr(<<"a">>)}

\* n rows of m cells: Fill everywhere but for the value v at row i, column j
Matrix(n, m, i, j, v) ==
    [r \in 1..n |-> [c \in 1..m |-> IF r = i /\ c = j THEN v ELSE Fill]]

\* The same with the last cell of the last row missing
Ragged(matrix) ==
    [matrix EXCEPT ![Len(matrix)] = SubSeq(@, 1, Len(@) - 1)]

\* The matrices of Fill alone, of every shape, and two whose last row is short
PlainMatrices ==
    {<<>>}
    \cup {Matrix(n, m, 0, 0, Fill) : n \in 1..MaxRows, m \in 1..MaxCols}
    \cup {Ragged(Matrix(n, MaxCols, 0, 0, Fill)) : n \in 1..MaxRows}

HeaderNames == {<<"i", "d">>, S_true, S_false}

PlainHeaders(m) == [c \in 1..m |-> IF c = 1 THEN <<"i", "d">> ELSE <<"h">>]

HeaderLists ==
    {<<>>} \cup {[c \in 1..m |-> IF c = 1 THEN h ELSE <<"h">>] : m \in 1..MaxCols, h \in HeaderNames}

TableNames == {<<>>, <<"S", "-", "a">>, <<"t", "1">>}

\* The tables a caller assigns: every value at every position of every shape
\* under a plain name and plain headers, and every name with every header list
\* over the plain matrices (the header count may differ from the row width).
Tables ==
    {[name |-> <<"S", "-", "a">>, headers |-> PlainHeaders(m), matrix |-> Matrix(n, m, i, j, v)] :
        n \in 1..MaxRows, m \in 1..MaxCols, i \in 1..MaxRows, j \in 1..MaxCols, v \in Values}
    \cup {[name |-> nm, headers |-> h, matrix |-> mx] :
            nm \in TableNames, h \in HeaderLists, mx \in PlainMatrices}

\* What a caller passes to the variable_declaration setter
DeclarationInputs ==
    {S_const, <<" ", "L", "e", "t", NL>>, <<"v", "a", "r", "s">>}

\* ---------------------------------------------------------------- actions
\* The state after __init__ and the caller's assignment of the table
Init ==
    /\ \E t \in Tables : table_name = t.name /\ headers = t.headers /\ value_matrix = t.matrix
    /\ is_write_header \in BOOLEAN
    /\ is_write_closing_row \in BOOLEAN
    /\ variable_declaration = S_const
    /\ indent_level = 0
    /\ stream = SINK
    /\ streams = << [closed |-> FALSE, chunks |-> <<>>] >>
    /\ raised = "none"

\* value.strip().lower(): the form in which the setter compares and stores a value
Normalized(value) == Lower(Strip(value))

\* A plausible bug: an invalid keyword falls back to the default
SetVariableDeclarationDefaulting(value) ==
    /\ variable_declaration' =
          (IF Normalized(value) \in VALID_VAR_DECLARATION THEN Normalized(value) ELSE S_const)
    /\ raised' = "none"
    /\ UNCHANGED <<table, indent_level, stream, streams>>

\* The variable_declaration setter
SetVariableDeclaration(value) ==
    LET v == Normalized(value)
    IN  /\ IF v \notin VALID_VAR_DECLARATION
           THEN raised' = "ValueError" /\ UNCHANGED variable_declaration
           ELSE raised' = "none" /\ variable_declaration' = v
        /\ UNCHANGED <<table, indent_level, stream, streams>>

\* A plausible bug: the last inc_indent_level is missing
WriteTableInnerWithoutLastInc ==
    LET text == UnquoteBooleans(RStrip(Concat(SuperWriteTable(indent_level + 1,
                    variable_declaration, table_name, headers, value_matrix,
                    is_write_header, is_write_closing_row)), {NL}))
    IN  /\ IsRectangular(headers, value_matrix)
        /\ streams' = [Append(streams, [closed |-> TRUE, chunks |-> <<>>])
                          EXCEPT ![stream].chunks = Append(@, Line(indent_level - 1,
                              IF is_write_closing_row THEN FixTrailingComma(text) ELSE text))]
        /\ indent_level' = indent_level - 1
        /\ raised' = "none"
        /\ UNCHANGED <<table, variable_declaration, stream>>

\* JavaScriptTableWriter._write_table
WriteTableInner ==
    LET org_stream == stream
        buffer == Len(streams) + 1
        rendered == SuperWriteTable(indent_level + 1, variable_declaration, table_name,
                                    headers, value_matrix, is_write_header,
                                    is_write_closing_row)
        stripped == UnquoteBooleans(RStrip(Concat(rendered), {NL}))
    IN  IF ~IsRectangular(headers, value_matrix)
        THEN \* super()._write_table() raises: lines 113 to 127 are not run
             /\ streams' = Append(streams, [closed |-> FALSE, chunks |-> <<>>])
             /\ stream' = buffer
             /\ indent_level' = indent_level + 1
             /\ raised' = "RenderError"
             /\ UNCHANGED <<table, variable_declaration>>
        ELSE IF is_write_closing_row /\ Len(SplitLines(stripped)) < 2
        THEN \* line 119 raises: lines 120 to 127 are not run
             /\ streams' = Append(streams, [closed |-> FALSE, chunks |-> rendered])
             /\ stream' = buffer
             /\ indent_level' = indent_level
             /\ raised' = "IndexError"
             /\ UNCHANGED <<table, variable_declaration>>
        ELSE LET js_matrix_var_def_text ==
                     IF is_write_closing_row THEN FixTrailingComma(stripped) ELSE stripped
             IN  /\ streams' = [Append(streams, [closed |-> TRUE, chunks |-> <<>>])
                                   EXCEPT ![org_stream].chunks =
                                       Append(@, Line(indent_level - 1, js_matrix_var_def_text))]
                 /\ stream' = org_stream
                 /\ indent_level' = (indent_level - 1) + 1
                 /\ raised' = "none"
                 /\ UNCHANGED <<table, variable_declaration>>

\* The caller's assignment writer.headers = []
ClearHeaders ==
    /\ headers # <<>>
    /\ headers' = <<>>
    /\ raised' = "none"
    /\ UNCHANGED <<table_name, value_matrix, is_write_header, is_write_closing_row,
                   variable_declaration, indent_level, stream, streams>>

\* write_table: the properties are verified, then _write_table runs
WriteTable ==
    /\ Len(streams) <= MaxCalls
    /\ IF VerifyProperty # "none"
       THEN raised' = VerifyProperty
            /\ UNCHANGED <<table, variable_declaration, indent_level, stream, streams>>
       ELSE WriteTableInner

Next ==
    \/ \E value \in DeclarationInputs : SetVariableDeclaration(value)
    \/ ClearHeaders
    \/ WriteTable

Spec == Init /\ [][Next]_vars

\* ------------------------------------------------- reading a step's output
\* The step is a _write_table call that returned normally
WroteOk == Len(streams') = Len(streams) + 1 /\ raised' = "none"

\* The step is a _write_table call that raised
WroteRaised == Len(streams') = Len(streams) + 1 /\ raised' # "none"

\* What the stream of the writer received during the step
Received == SubSeq(streams'[stream].chunks, Len(streams[stream].chunks) + 1,
                   Len(streams'[stream].chunks))

\* The lines of the text the step emitted
OutLines == SplitLines(Concat(Received))

\* A line without its indentation
Body(line) == LStrip(line, {" "})

LeadingSpaces(line) == Len(line) - Len(Body(line))

EndsWith(s, suffix) ==
    Len(s) >= Len(suffix) /\ SubSeq(s, Len(s) - Len(suffix) + 1, Len(s)) = suffix

RECURSIVE SplitFields(_, _)
\* The pieces of s between the separators ", "
SplitFields(s, cur) ==
    IF s = <<>> THEN <<cur>>
    ELSE IF Len(s) >= 2 /\ s[1] = "," /\ s[2] = " "
         THEN <<cur>> \o SplitFields(SubSeq(s, 3, Len(s)), <<>>)
         ELSE SplitFields(Tail(s), Append(cur, Head(s)))

\* A line is [ ... ] or [ ... ], after its indentation
IsBracketed(line) ==
    LET b == Body(line)
    IN  b # <<>> /\ b[1] = "[" /\ (EndsWith(b, <<"]">>) \/ EndsWith(b, <<"]", ",">>))

\* The fields of a bracketed line
Fields(line) ==
    LET b == RStrip(Body(line), {","})
    IN  SplitFields(SubSeq(b, 2, Len(b) - 1), <<>>)

RECURSIVE Count(_, _)
\* The number of occurrences of the character c in s
Count(s, c) ==
    IF s = <<>> THEN 0 ELSE (IF Head(s) = c THEN 1 ELSE 0) + Count(Tail(s), c)

HasHeaderLine == is_write_header /\ headers # <<>>

\* The index, among the emitted lines, of the line of input row r
RowLineIndex(r) == 1 + (IF HasHeaderLine THEN 1 ELSE 0) + r

\* The fields of the line of every input row
RowFields == LET lines == OutLines
             IN  [r \in 1..Len(value_matrix) |-> Fields(lines[RowLineIndex(r)])]

Cells == {<<r, c>> \in (1..MaxRows + 1) \X (1..MaxCols + 1) :
             r <= Len(value_matrix) /\ c <= Len(value_matrix[r])}

Quoted(s) == <<QUOTE>> \o s \o <<QUOTE>>

\* Some _write_table call has returned normally and its text is in the sink
SinkWritten == streams[SINK].chunks # <<>>

HasCell(v) == \E r \in 1..Len(value_matrix) : \E c \in 1..Len(value_matrix[r]) :
                 value_matrix[r][c] = v

\* ------------------------------------------------------------------ claims

\* C1: a table with a non-empty name, non-empty headers and at least one row,
\* written with the header row and the closing row enabled, is emitted as the
\* line '<variable_declaration> <sanitized lower-cased name> = [', one bracketed
\* header line, one bracketed line per input row, in input order, each with as
\* many fields as there are headers, and the last line '];', brackets balanced.
C1_Grammar ==
    [][(WroteOk /\ table_name # <<>> /\ headers # <<>> /\ value_matrix # <<>>
           /\ is_write_header /\ is_write_closing_row)
       => \A lines \in {OutLines} : \A fields \in {RowFields} :
          \A header \in {Fields(lines[2])} : \A first \in {Body(lines[1])} :
          LET n == Len(value_matrix)
              text == Concat(Received)
              prefix == variable_declaration \o <<" ">>
              name == SubSeq(first, Len(prefix) + 1, Len(first) - 4)
          IN  /\ Len(lines) = n + 3
              /\ SubSeq(first, 1, Len(prefix)) = prefix
              /\ EndsWith(first, <<" ", "=", " ", "[">>)
              /\ Len(name) = Len(table_name)
              /\ \A k \in 1..Len(name) :
                    name[k] = IF table_name[k] \in IdentifierChars
                              THEN LowerChar(table_name[k]) ELSE "_"
              /\ \A k \in 1..Len(name) : LowerChar(name[k]) = name[k]
              /\ IsBracketed(lines[2])
              /\ Len(header) = Len(headers)
              /\ \A c \in 1..Len(headers) : header[c] \in {Quoted(headers[c]), headers[c]}
              /\ \A r \in 1..n :
                    /\ IsBracketed(lines[2 + r])
                    /\ Len(fields[r]) = Len(headers)
                    /\ \A c \in 1..Len(headers) :
                          /\ fields[r][c] = S_null <=> value_matrix[r][c] = VNone
                          /\ fields[r][c] = <<"1">> <=> value_matrix[r][c] = VInt(1)
              /\ Body(lines[n + 3]) = <<"]", ";">>
              /\ Count(text, "[") = Count(text, "]")
              /\ Count(text, ";") = 1
      ]_vars

\* C1's case: such a table has been written with both rows enabled
C1_Witness ==
    /\ SinkWritten /\ raised = "none"
    /\ table_name = <<"S", "-", "a">> /\ Len(headers) = 2 /\ Len(value_matrix) = 2
    /\ is_write_header /\ is_write_closing_row
    /\ value_matrix[2][1] = VNone

\* C2: with is_write_closing_row enabled the line of the last data row, the one
\* before the closing '];' line, does not end with a comma while every other row
\* line keeps its comma; with is_write_closing_row disabled every row line keeps
\* its trailing comma.
C2_TrailingComma ==
    [][(WroteOk /\ value_matrix # <<>>)
       => \A lines \in {OutLines} :
          LET n == Len(value_matrix)
              last == RowLineIndex(n)
          IN  /\ \A k \in 2..(last - 1) : EndsWith(lines[k], <<"]", ",">>)
              /\ IF is_write_closing_row
                 THEN /\ Len(lines) = last + 1
                      /\ Body(lines[last + 1]) = <<"]", ";">>
                      /\ EndsWith(lines[last], <<"]">>)
                 ELSE /\ Len(lines) = last
                      /\ EndsWith(lines[last], <<"]", ",">>)
      ]_vars

\* C2's case: two rows and a header row written with the closing row
C2_Witness ==
    /\ SinkWritten /\ raised = "none" /\ is_write_closing_row /\ is_write_header
    /\ Len(value_matrix) = 2 /\ headers # <<>>

\* C3: a cell whose raw value is a genuine boolean is emitted as the bare token
\* true or false, in every row and column.
C3_BooleansBare ==
    [][WroteOk
       => \A fields \in {RowFields} : \A rc \in Cells :
             /\ value_matrix[rc[1]][rc[2]] = VBool(TRUE) => fields[rc[1]][rc[2]] = S_true
             /\ value_matrix[rc[1]][rc[2]] = VBool(FALSE) => fields[rc[1]][rc[2]] = S_false
      ]_vars

\* C3's case: a table with False in its last row and last column has been written
C3_Witness ==
    /\ SinkWritten /\ raised = "none"
    /\ Len(value_matrix) = MaxRows
    /\ Len(value_matrix[MaxRows]) = MaxCols
    /\ value_matrix[MaxRows][MaxCols] = VBool(FALSE)

\* C4: a string cell or header whose text is exactly true or false is emitted
\* as a quoted string literal, unlike the boolean.
C4_BooleanLookingStringsQuoted ==
    [][WroteOk
       => /\ \A fields \in {RowFields} : \A rc \in Cells : \A t \in {S_true, S_false} :
                value_matrix[rc[1]][rc[2]] = VStr(t) => fields[rc[1]][rc[2]] = Quoted(t)
          /\ HasHeaderLine =>
                \A c \in 1..Len(headers) : \A t \in {S_true, S_false} :
                    headers[c] = t => Fields(OutLines[2])[c] = Quoted(t)
      ]_vars

\* C5: a None cell is emitted as the bare token null, and no other cell is:
\* the string null stays a quoted string, an int stays its digits.
C5_NullBare ==
    [][WroteOk
       => \A fields \in {RowFields} : \A rc \in Cells :
                 LET v == value_matrix[rc[1]][rc[2]]
                     out == fields[rc[1]][rc[2]]
                 IN  /\ v = VNone <=> out = S_null
                     /\ v = VStr(S_null) => out = Quoted(S_null)
                     /\ v = VStr(<<"a">>) => out = Quoted(<<"a">>)
                     /\ v = VInt(1) => out = <<"1">>
      ]_vars

\* C5's case: a table with a None cell has been written
C5_Witness == SinkWritten /\ raised = "none" /\ HasCell(VNone)

\* C6: positive infinity is emitted as Infinity, negative infinity as
\* -Infinity and not-a-number as NaN.
C6_SpecialFloats ==
    [][WroteOk
       => \A fields \in {RowFields} : \A rc \in Cells :
             LET v == value_matrix[rc[1]][rc[2]]
                 out == fields[rc[1]][rc[2]]
             IN  /\ v = VFloat("inf") => out = S_Infinity
                 /\ v = VFloat("-inf") => out = S_NegInfinity
                 /\ v = VFloat("nan") => out = S_NaN
      ]_vars

\* C7 as stated: the stored keyword is always one of var, let, const, and
\* setting a value outside this set raises and leaves the stored keyword as it was.
C7_AsStated ==
    /\ variable_declaration = S_const
    /\ [](variable_declaration \in VALID_VAR_DECLARATION)
    /\ [][\A value \in DeclarationInputs :
             (SetVariableDeclaration(value) /\ value \notin VALID_VAR_DECLARATION)
             => (raised' = "ValueError" /\ variable_declaration' = variable_declaration)
         ]_vars

\* C7, amended: the stored keyword is const after construction and always one of
\* var, let, const; setting a value whose stripped, lower-cased form is outside
\* this set raises ValueError and leaves the stored keyword as it was; any other
\* value is stored in its stripped, lower-cased form.
C7_KeywordValidated ==
    /\ variable_declaration = S_const
    /\ [](variable_declaration \in VALID_VAR_DECLARATION)
    /\ [][\A value \in DeclarationInputs :
             SetVariableDeclaration(value)
             => IF Normalized(value) \in VALID_VAR_DECLARATION
                THEN raised' = "none" /\ variable_declaration' = Normalized(value)
                ELSE raised' = "ValueError" /\ variable_declaration' = variable_declaration
         ]_vars

\* C7's case: a keyword was stored in normal form, then a bad one was refused
C7_Witness == raised = "ValueError" /\ variable_declaration = S_let

\* C8: write_table on an empty table name raises EmptyTableNameError, on empty
\* headers and an empty value matrix EmptyTableDataError, and in both cases no
\* stream receives anything and the writer is left as it was.
C8_PreconditionErrors ==
    [][((table_name = <<>> \/ (headers = <<>> /\ value_matrix = <<>>)) /\ WriteTable)
       => /\ table_name = <<>> =>
                /\ raised' = "EmptyTableNameError"
                /\ UNCHANGED <<streams, stream, indent_level>>
          /\ (headers = <<>> /\ value_matrix = <<>>) =>
                /\ raised' \in {"EmptyTableNameError", "EmptyTableDataError"}
                /\ table_name # <<>> => raised' = "EmptyTableDataError"
                /\ UNCHANGED <<streams, stream, indent_level>>
      ]_vars

\* C8's case: a write of a named table without headers and rows was refused
C8_Witness ==
    /\ raised = "EmptyTableDataError" /\ table_name # <<>>
    /\ streams[SINK].chunks = <<>>

\* Every buffer of _write_table is closed
AllReleased == \A k \in 2..Len(streams) : streams[k].closed

\* C9: whenever control is outside _write_table, every buffer it installed is
\* closed and the writer's stream is the caller's sink, also after a call in
\* which rendering the rows raised.
C9_BufferReleased == AllReleased /\ stream = SINK

RECURSIVE Contains(_, _)
Contains(text, pat) ==
    /\ Len(text) >= Len(pat)
    /\ \/ SubSeq(text, 1, Len(pat)) = pat
       \/ Contains(Tail(text), pat)

\* C10: a _write_table call that returns normally leaves the indentation level
\* and the stream as they were, and its stream receives exactly one write: the
\* text after the quote stripping and the trailing-comma fix, its rows rendered
\* one level above the entry level and the whole written one level below it.
\* While no call has raised, the level is the initial one and the sink holds
\* one write per call.
C10_FrameOfWriteTable ==
    [][/\ WroteOk =>
            \A lines \in {OutLines} : \A text \in {Concat(Received)} :
            LET last == Len(lines)
            IN  /\ indent_level' = indent_level
                /\ stream' = stream
                /\ Len(Received) = 1
                /\ \A k \in 1..Len(streams) : k # stream => streams'[k] = streams[k]
                /\ streams'[Len(streams')].closed
                /\ \A t \in {S_true, S_false} :
                      /\ ~Contains(text, Quoted(t))
                      /\ ~Contains(text, <<"'">> \o t \o <<"'">>)
                /\ (is_write_closing_row /\ last >= 2) => ~EndsWith(lines[last - 1], <<",">>)
                /\ LeadingSpaces(lines[1]) =
                      Len(IndentString(indent_level - 1)) + Len(IndentString(indent_level))
                /\ \A k \in 2..last :
                      IsBracketed(lines[k])
                      => LeadingSpaces(lines[k]) = Len(IndentString(indent_level + 1))
       /\ AllReleased' =>
            /\ indent_level' = 0
            /\ stream' = SINK
            /\ Len(streams'[SINK].chunks) = Len(streams') - 1
      ]_vars

\* C10's case: two calls have returned normally
C10_Witness ==
    /\ Len(streams[SINK].chunks) = 2 /\ indent_level = 0 /\ stream = SINK
    /\ value_matrix # <<>>

====
